---- MODULE Spec2Model ----
(***************************************************************************)
(* A model of penzai/core/struct.py: the pytree_dataclass decorator (the   *)
(* type registrar), the mutable init proxy, the AbstractStructMetaclass    *)
(* instantiation guard and the Struct tree codec.                          *)
(*                                                                         *)
(* A state holds a small program (one to three user classes in a chain    *)
(* A <- B <- C below a root), the attributes the decorator writes into    *)
(* each class's __dict__, JAX's registry of keyed node classes, and the   *)
(* result of the most recent call.                                         *)
(***************************************************************************)
EXTENDS Integers, Sequences, FiniteSets, TLC

VARIABLES
    decl,     \* the class statements as written: base, annotations, own __init__
    klass,    \* what each class's __dict__ holds that the decorator reads or writes
    jaxreg,   \* number of register_pytree_with_keys_class calls per class
    reglog,   \* per class: "never" decorated, one decoration returned ("ok"), or the
              \* error of the latest decoration when none has returned
    ret       \* the most recent call and what it returned or raised

vars == <<decl, klass, jaxreg, reglog, ret>>

(***************************************************************************)
(* Bounds and value encodings.                                             *)
(***************************************************************************)
MaxVal == 2
Values == 1..MaxVal

\* Inside an initializer body: the attribute is not assigned.
Unset == -1
\* Inside an initializer body: the attribute is assigned `self`.  In an
\* instance built by replacement_init this value is the proxy object.
SelfRef == 0

FieldNames == {"x", "y"}
ClassVarName == "k"

ClassNames == {"A", "B", "C"}
\* the classes the program declared
UserTypes == DOMAIN decl
Roots == {"Struct", "Meta"}

ProxyName(t) == t \o "._MutableInitProxy"
\* the class objects that exist: a proxy class exists once its owner made it
Types == UserTypes \cup {ProxyName(t) : t \in {u \in UserTypes : klass[u].proxy}}
IsProxy(t) == t \notin ClassNames
OwnerOf(p) == CHOOSE t \in ClassNames : ProxyName(t) = p

None == <<>>
Some(v) == <<v>>
Get(opt) == opt[1]

(***************************************************************************)
(* Initializers, as `is`-comparable function objects.                      *)
(***************************************************************************)
ObjectInit == [kind |-> "object", owner |-> "object"]
GeneratedInit(t) == [kind |-> "generated", owner |-> t]
CustomInit(t) == [kind |-> "custom", owner |-> t]
ReplacementInit(t) == [kind |-> "replacement", owner |-> t]

(***************************************************************************)
(* Class hierarchy and attribute lookup along the MRO.                     *)
(***************************************************************************)
RECURSIVE Mro(_)
Mro(t) ==
    IF t \in Roots THEN <<>>
    ELSE IF IsProxy(t) THEN <<t>> \o Mro(OwnerOf(t))
    ELSE <<t>> \o Mro(decl[t].base)

RootOf(t) ==
    LET m == Mro(t) IN decl[m[Len(m)]].base

IsSubclass(t, u) == \E i \in 1..Len(Mro(t)) : Mro(t)[i] = u

\* cls.__dict__.get(PYTREE_DATACLASS_INFO_ATTR)
OwnInfo(k, t) ==
    IF IsProxy(t)
    THEN IF k[OwnerOf(t)].proxy THEN Some([is_init_proxy |-> TRUE]) ELSE None
    ELSE k[t].info

\* cls.__dict__.get("__init__")
OwnInit(k, t) ==
    IF IsProxy(t) THEN Some(CustomInit(OwnerOf(t))) ELSE k[t].init

\* cls.__dict__.get("__dataclass_fields__")
OwnFields(k, t) ==
    IF IsProxy(t) THEN None ELSE k[t].fields

RECURSIVE FirstSome(_)
FirstSome(opts) ==
    IF opts = <<>> THEN None
    ELSE IF Head(opts) # None THEN Head(opts)
    ELSE FirstSome(Tail(opts))

\* getattr(cls, PYTREE_DATACLASS_INFO_ATTR, None)
InheritedInfo(k, t) ==
    LET m == Mro(t) IN FirstSome([i \in 1..Len(m) |-> OwnInfo(k, m[i])])

\* cls.__init__
LookupInit(k, t) ==
    LET m == Mro(t)
        i == FirstSome([n \in 1..Len(m) |-> OwnInit(k, m[n])])
    IN  IF i = None THEN ObjectInit ELSE Get(i)

\* getattr(cls, "__dataclass_fields__", None), which dataclasses.fields reads
DataclassFields(k, t) ==
    LET m == Mro(t) IN FirstSome([i \in 1..Len(m) |-> OwnFields(k, m[i])])

FieldNamesOf(fs) == [i \in 1..Len(fs) |-> fs[i].name]
NameSet(names) == {names[i] : i \in 1..Len(names)}

is_pytree_dataclass_type(k, t) == OwnInfo(k, t) # None

\* a classifier that takes every field for a child
is_pytree_node_field_always(field) == TRUE

\* lines 426-438
is_pytree_node_field(field) == field.pytree_node

(***************************************************************************)
(* dataclasses.dataclass(frozen=True): field collection and the attributes *)
(* it sets on the class.                                                   *)
(***************************************************************************)
\* fields[f.name] = f on an insertion-ordered dict
PutField(fs, f) ==
    IF \E i \in 1..Len(fs) : fs[i].name = f.name
    THEN [i \in 1..Len(fs) |-> IF fs[i].name = f.name THEN f ELSE fs[i]]
    ELSE Append(fs, f)

RECURSIVE PutFields(_, _)
PutFields(fs, new) ==
    IF new = <<>> THEN fs ELSE PutFields(PutField(fs, Head(new)), Tail(new))

\* the fields of the base classes, walking cls.__mro__[-1:0:-1]
RECURSIVE BaseFields(_, _)
BaseFields(k, bases) ==
    IF bases = <<>> THEN <<>>
    ELSE LET below == BaseFields(k, Tail(bases))
             mine == DataclassFields(k, Head(bases))
         IN  IF mine = None THEN below ELSE PutFields(below, Get(mine))

IsTrueField(a) == ~a.classvar
AsField(a) == [name |-> a.name, pytree_node |-> a.pytree_node]

OwnAnnotatedFields(t) ==
    LET as == SelectSeq(decl[t].annots, IsTrueField)
    IN  [i \in 1..Len(as) |-> AsField(as[i])]

ProcessFields(k, t) ==
    PutFields(BaseFields(k, Tail(Mro(t))), OwnAnnotatedFields(t))

\* lines 252-260: the class becomes a frozen dataclass; __init__ is generated
\* only when requested and the class does not define one itself
DataclassTransform(k, t, o) ==
    [k EXCEPT ![t].fields = Some(ProcessFields(k, t)),
              ![t].frozen = TRUE,
              ![t].init = IF o.init /\ k[t].init = None
                          THEN Some(GeneratedInit(t)) ELSE @]

(***************************************************************************)
(* pytree_dataclass, step by step.                                         *)
(***************************************************************************)
Options ==
    [has_implicitly_inherited_fields : BOOLEAN,
     use_mutable_proxy_in_init : BOOLEAN,
     overwrite_parent_init : BOOLEAN,
     init : BOOLEAN]

DefaultOptions ==
    [has_implicitly_inherited_fields |-> FALSE,
     use_mutable_proxy_in_init |-> TRUE,
     overwrite_parent_init |-> FALSE,
     init |-> TRUE]

\* a repeated-decoration test that only recognises init proxies
AlreadyDecorated_proxy_only(k, t) == IsProxy(t) /\ OwnInfo(k, t) # None

\* line 200
AlreadyDecorated(k, t) == OwnInfo(k, t) # None

\* lines 210-220: the initializer it is safe to overwrite
SafeToOverwrite(k, t) ==
    LET inherited == InheritedInfo(k, t) IN
    IF inherited # None /\ Get(inherited).generated_init # None
    THEN Get(Get(inherited).generated_init)
    ELSE ObjectInit

\* lines 207-222
UnsafeInitOverwrite(k, t, o) ==
    /\ o.init
    /\ OwnInit(k, t) = None
    /\ ~o.overwrite_parent_init
    /\ LookupInit(k, t) # SafeToOverwrite(k, t)

\* lines 235-243
SaveInfo(k, t, o) ==
    [k EXCEPT ![t].info = Some(
        [has_implicitly_inherited_fields |-> o.has_implicitly_inherited_fields,
         use_mutable_proxy_in_init |-> o.use_mutable_proxy_in_init,
         is_init_proxy |-> FALSE,
         generated_init |-> None])]

\* a decorator that never remembers the __init__ it generated
RememberGeneratedInit_never(k, t, o, original_init) ==
    [k EXCEPT ![t].info = Some([Get(@) EXCEPT !.generated_init = None])]

\* lines 264-267
RememberGeneratedInit(k, t, o, original_init) ==
    [k EXCEPT ![t].info = Some(
        [Get(@) EXCEPT !.generated_init =
            IF o.init /\ original_init = None
            THEN Some(LookupInit(k, t)) ELSE None])]

\* line 269: inspect.get_annotations(cls).keys()
explicit_annotation_names(t) ==
    [i \in 1..Len(decl[t].annots) |-> decl[t].annots[i].name]

\* lines 270-271
actual_field_names(k, t) == FieldNamesOf(Get(DataclassFields(k, t)))

\* lines 289-293
explicit_field_names(k, t) ==
    LET InActual(n) == n \in NameSet(actual_field_names(k, t))
    IN  SelectSeq(explicit_annotation_names(t), InActual)

\* a field check that compares the two lists as sets
FieldCheck_unordered(k, t, o) ==
    IF o.has_implicitly_inherited_fields
    THEN IF NameSet(actual_field_names(k, t))
              \ NameSet(explicit_annotation_names(t)) = {}
         THEN "RedundantOptionError" ELSE "ok"
    ELSE IF NameSet(explicit_field_names(k, t)) # NameSet(actual_field_names(k, t))
         THEN "FieldOrderMismatchError" ELSE "ok"

\* lines 272-306
FieldCheck(k, t, o) ==
    IF o.has_implicitly_inherited_fields
    THEN IF NameSet(actual_field_names(k, t))
              \ NameSet(explicit_annotation_names(t)) = {}
         THEN "RedundantOptionError" ELSE "ok"
    ELSE IF explicit_field_names(k, t) # actual_field_names(k, t)
         THEN "FieldOrderMismatchError" ELSE "ok"

\* lines 309-311: Struct provides both methods to its subclasses
HasCodec(t) == RootOf(t) = "Struct"

\* line 319
register_pytree_with_keys_class(j, t) == [j EXCEPT ![t] = @ + 1]

\* line 323
HasProxyAttr(k, t) == decl[t].proxyattr \/ k[t].proxy

\* lines 333-373: cls._MutableInitProxy is created, flagged as an init proxy
\* and given the original __init__; cls.__init__ becomes replacement_init
InstallProxy(k, t) ==
    [k EXCEPT ![t].proxy = TRUE, ![t].init = Some(ReplacementInit(t))]

Outcome(o, k, j) == [outcome |-> o, klass |-> k, jaxreg |-> j]

\* lines 200-375
pytree_dataclass(k, j, t, o) ==
    IF AlreadyDecorated(k, t) THEN Outcome("AlreadyRegisteredError", k, j)
    ELSE IF UnsafeInitOverwrite(k, t, o)
    THEN Outcome("UnsafeInitOverwriteError", k, j)
    ELSE
    LET original_init == OwnInit(k, t)
        k1 == SaveInfo(k, t, o)
        k2 == DataclassTransform(k1, t, o)
        k3 == RememberGeneratedInit(k2, t, o, original_init)
        check == FieldCheck(k3, t, o)
    IN  IF check # "ok" THEN Outcome(check, k3, j)
        ELSE IF ~HasCodec(t) THEN Outcome("MissingCodecError", k3, j)
        ELSE
        LET j1 == register_pytree_with_keys_class(j, t) IN
        IF o.use_mutable_proxy_in_init /\ original_init # None
        THEN IF HasProxyAttr(k3, t)
             THEN Outcome("ProxyAttributeError", k3, j1)
             ELSE Outcome("ok", InstallProxy(k3, t), j1)
        ELSE Outcome("ok", k3, j1)

(***************************************************************************)
(* Instances and construction.                                             *)
(***************************************************************************)
NoAttrs == [f \in {} |-> 0]
Instance(t, attrs) == [type |-> t, attrs |-> attrs]

\* What an initializer body does with each attribute name: leaves it
\* unassigned, assigns it a value, or assigns it `self`.  For a generated
\* __init__ the same record is the argument list.
Assigned(a) == {f \in FieldNames : a[f] # Unset}

\* What a call did: it raised or returned (outcome, the field an error names,
\* the instance returned), and `ran` lists, in order, the objects that
\* type.__call__ created on the way and the kind of __init__ run on each.
Result(o, field, inst) ==
    [outcome |-> o, field |-> field, inst |-> inst, ran |-> <<>>]

Created(t, init) == [new |-> t, init |-> init.kind]

\* type(self).__setattr__(self, name, v): the frozen __setattr__ that
\* dataclasses gives class c raises when type(self) is c or name is a field of
\* c, and otherwise defers to the next class; the proxy's is object.__setattr__
RECURSIVE SetattrRaises(_, _, _, _)
SetattrRaises(k, m, t, name) ==
    IF m = <<>> THEN FALSE
    ELSE IF IsProxy(Head(m)) THEN FALSE
    ELSE IF k[Head(m)].frozen
    THEN \/ t = Head(m)
         \/ name \in NameSet(FieldNamesOf(Get(k[Head(m)].fields)))
         \/ SetattrRaises(k, Tail(m), t, name)
    ELSE SetattrRaises(k, Tail(m), t, name)

IsFrozenFor(k, t, name) == SetattrRaises(k, Mro(t), t, name)

\* a hand-written __init__ running on an object of type t: self.f = v
RunCustomInit(k, t, a) ==
    IF \E f \in Assigned(a) : IsFrozenFor(k, t, f)
    THEN Result("FrozenInstanceError", "", None)
    ELSE Result("ok", "", Some(Instance(t, [f \in Assigned(a) |-> a[f]])))

\* the __init__ dataclasses generated for class q: one argument per field
RunGeneratedInit(k, q, t, a) ==
    LET names == NameSet(FieldNamesOf(Get(k[q].fields))) IN
    IF \E f \in names : a[f] = Unset
    THEN Result("TypeError", "", None)
    ELSE Result("ok", "", Some(Instance(t, [f \in names |-> a[f]])))

RECURSIVE MissingField(_, _)
MissingField(names, attrs) ==
    IF names = <<>> THEN ""
    ELSE IF Head(names) \notin DOMAIN attrs THEN Head(names)
    ELSE MissingField(Tail(names), attrs)

RECURSIVE MetaclassCall(_, _, _)

\* a wrapper that hands out the proxy it built instead of copying its fields
replacement_init_returns_proxy(k, q, t, a) ==
    LET made == MetaclassCall(k, ProxyName(q), a) IN
    IF made.outcome # "ok" THEN made
    ELSE
    LET proxy == Get(made.inst)
        names == FieldNamesOf(Get(DataclassFields(k, q)))
        missing == MissingField(names, proxy.attrs)
    IN  IF missing # ""
        THEN [Result("UninitializedFieldError", missing, None)
                 EXCEPT !.ran = made.ran]
        ELSE [Result("ok", "", Some(proxy)) EXCEPT !.ran = made.ran]

\* lines 356-371
replacement_init(k, q, t, a) ==
    LET made == MetaclassCall(k, ProxyName(q), a) IN
    IF made.outcome # "ok" THEN made
    ELSE
    LET proxy == Get(made.inst)
        names == FieldNamesOf(Get(DataclassFields(k, q)))
        missing == MissingField(names, proxy.attrs)
    IN  IF missing # ""
        THEN [Result("UninitializedFieldError", missing, None)
                 EXCEPT !.ran = made.ran]
        ELSE [Result("ok", "",
                  Some(Instance(t, [f \in NameSet(names) |-> proxy.attrs[f]])))
                 EXCEPT !.ran = made.ran]

\* type.__call__: object.__new__(cls), then cls.__init__ found along the MRO
type_call(k, t, a) ==
    LET init == LookupInit(k, t)
        r == CASE init.kind = "object" ->
                     Result("ok", "", Some(Instance(t, NoAttrs)))
               [] init.kind = "generated" ->
                     RunGeneratedInit(k, init.owner, t, a)
               [] init.kind = "custom" -> RunCustomInit(k, t, a)
               [] init.kind = "replacement" ->
                     replacement_init(k, init.owner, t, a)
    IN  [r EXCEPT !.ran = <<Created(t, init)>> \o @]

\* a guard that also turns away the init proxy classes
MetaclassCall_rejects_proxy(k, t, a) ==
    IF ~is_pytree_dataclass_type(k, t) \/ IsProxy(t)
    THEN Result("AbstractTypeError", "", None)
    ELSE type_call(k, t, a)

\* lines 402-423: AbstractStructMetaclass.__call__
MetaclassCall(k, t, a) ==
    IF ~is_pytree_dataclass_type(k, t)
    THEN Result("AbstractTypeError", "", None)
    ELSE type_call(k, t, a)

(***************************************************************************)
(* The tree codec.                                                         *)
(***************************************************************************)
\* lines 557-568
key_for_field(field_name) == [GetAttrKey |-> field_name]

StructStaticMetadata(names, static) ==
    [child_field_names |-> names, static_fields |-> static]

Flat(o, children, meta) == [outcome |-> o, children |-> children, meta |-> meta]
NoMeta == StructStaticMetadata(<<>>, NoAttrs)

\* lines 591-600, one field per iteration
RECURSIVE FlattenLoop(_, _, _, _, _)
FlattenLoop(fs, x, names, children, static) ==
    IF fs = <<>>
    THEN Flat("ok", children, StructStaticMetadata(names, static))
    ELSE
    LET field == Head(fs) IN
    IF field.name \notin DOMAIN x.attrs
    THEN Flat("AttributeError", <<>>, NoMeta)
    ELSE IF ~is_pytree_node_field(field)
    THEN FlattenLoop(Tail(fs), x, names, children,
                     static @@ (field.name :> x.attrs[field.name]))
    ELSE FlattenLoop(Tail(fs), x, Append(names, field.name),
                     Append(children, [key |-> key_for_field(field.name),
                                       value |-> x.attrs[field.name]]),
                     static)

\* lines 587-601
tree_flatten_with_keys(k, x) ==
    FlattenLoop(Get(DataclassFields(k, x.type)), x, <<>>, <<>>, NoAttrs)

\* lines 624-627, one field per iteration
RECURSIVE FlattenLoopNoKeys(_, _, _, _, _)
FlattenLoopNoKeys(fs, x, names, children, static) ==
    IF fs = <<>>
    THEN Flat("ok", children, StructStaticMetadata(names, static))
    ELSE
    LET field == Head(fs) IN
    IF field.name \notin DOMAIN x.attrs
    THEN Flat("AttributeError", <<>>, NoMeta)
    ELSE IF ~is_pytree_node_field(field)
    THEN FlattenLoopNoKeys(Tail(fs), x, names, children,
                           static @@ (field.name :> x.attrs[field.name]))
    ELSE FlattenLoopNoKeys(Tail(fs), x, Append(names, field.name),
                           Append(children, x.attrs[field.name]), static)

\* a tree_flatten that returns the children last field first
tree_flatten_reversed(k, x) ==
    LET r == FlattenLoopNoKeys(Get(DataclassFields(k, x.type)), x,
                               <<>>, <<>>, NoAttrs)
    IN  [r EXCEPT !.children =
            [i \in 1..Len(@) |-> @[Len(@) + 1 - i]]]

\* lines 620-628
tree_flatten(k, x) ==
    FlattenLoopNoKeys(Get(DataclassFields(k, x.type)), x, <<>>, <<>>, NoAttrs)

\* what JAX hands to tree_unflatten: the children without their keys
StripKeys(children) == [i \in 1..Len(children) |-> children[i].value]

\* dataclass_util.dataclass_from_attributes: a fresh instance that holds
\* exactly the given attributes; no __init__ runs
dataclass_from_attributes(t, attributes) ==
    Result("ok", "", Some(Instance(t, attributes)))

\* lines 497-518
from_attributes(t, attributes) == dataclass_from_attributes(t, attributes)

\* an unflatten that forgets the static fields of the metadata
tree_unflatten_children_only(t, aux_data, children) ==
    IF Len(children) # Len(aux_data.child_field_names)
    THEN Result("AssertionError", "", None)
    ELSE
    LET names == aux_data.child_field_names
        zipped == [n \in NameSet(names) |->
                      children[CHOOSE i \in 1..Len(names) : names[i] = n]]
    IN  from_attributes(t, zipped)

\* an unflatten that builds the instance by calling the class: cls(**attributes)
tree_unflatten_via_init(t, aux_data, children) ==
    IF Len(children) # Len(aux_data.child_field_names)
    THEN Result("AssertionError", "", None)
    ELSE
    LET names == aux_data.child_field_names
        zipped == [n \in NameSet(names) |->
                      children[CHOOSE i \in 1..Len(names) : names[i] = n]]
        attributes == zipped @@ aux_data.static_fields
    IN  MetaclassCall(klass, t,
            [f \in FieldNames |->
                IF f \in DOMAIN attributes THEN attributes[f] ELSE Unset])

\* lines 651-656
tree_unflatten(t, aux_data, children) ==
    IF Len(children) # Len(aux_data.child_field_names)
    THEN Result("AssertionError", "", None)
    ELSE
    LET names == aux_data.child_field_names
        zipped == [n \in NameSet(names) |->
                      children[CHOOSE i \in 1..Len(names) : names[i] = n]]
    IN  from_attributes(t, zipped @@ aux_data.static_fields)

(***************************************************************************)
(* The programs: class statements the model starts from.                   *)
(***************************************************************************)
Child(n) == [name |-> n, pytree_node |-> TRUE, classvar |-> FALSE]
Static(n) == [name |-> n, pytree_node |-> FALSE, classvar |-> FALSE]
ClassVar(n) == [name |-> n, pytree_node |-> TRUE, classvar |-> TRUE]

Class(base, annots, init) ==
    [base |-> base, annots |-> annots, init |-> init, proxyattr |-> FALSE]

Declarations ==
    { \* Tagged: one child, one static field
      [A |-> Class("Struct", <<Child("x"), Static("y")>>, FALSE)],
      \* Point with a hand-written __init__
      [A |-> Class("Struct", <<Child("x"), Child("y")>>, TRUE)],
      \* a class that has the metaclass but not Struct's codec methods
      [A |-> Class("Meta", <<Child("x")>>, FALSE)],
      \* a class that already defines _MutableInitProxy
      [A |-> [Class("Struct", <<Child("x")>>, TRUE) EXCEPT !.proxyattr = TRUE]],
      \* B adds a field without listing A's
      [A |-> Class("Struct", <<Child("x")>>, FALSE),
       B |-> Class("A", <<Child("y")>>, FALSE)],
      \* B lists A's field and adds one; A's __init__ is hand-written
      [A |-> Class("Struct", <<Child("x")>>, TRUE),
       B |-> Class("A", <<Child("x"), Static("y")>>, FALSE)],
      \* B lists the fields in another order and reclassifies one
      [A |-> Class("Struct", <<Child("x"), Static("y")>>, FALSE),
       B |-> Class("A", <<Child("y"), Child("x"), ClassVar(ClassVarName)>>, TRUE)],
      \* a chain of three classes without fields or hand-written initializers
      [A |-> Class("Struct", <<>>, FALSE),
       B |-> Class("A", <<>>, FALSE),
       C |-> Class("B", <<>>, FALSE)] }

(***************************************************************************)
(* State machine.                                                          *)
(***************************************************************************)
NoOptions == None
NoRet ==
    [op |-> "none", type |-> "", opts |-> None, body |-> None,
     outcome |-> "", field |-> "", inst |-> None, src |-> None,
     children |-> <<>>, meta |-> NoMeta, ran |-> <<>>]

Init ==
    /\ decl \in Declarations
    /\ klass = [t \in DOMAIN decl |->
                  [info |-> None,
                   fields |-> None,
                   init |-> IF decl[t].init THEN Some(CustomInit(t)) ELSE None,
                   frozen |-> FALSE,
                   proxy |-> FALSE]]
    /\ jaxreg = [t \in {n \in ClassNames : n \in DOMAIN decl}
                       \cup {ProxyName(n) : n \in DOMAIN decl} |-> 0]
    /\ reglog = [t \in DOMAIN jaxreg |-> "never"]
    /\ ret = NoRet

\* the attribute names the program's classes annotate as fields
UsedNames ==
    UNION {NameSet(explicit_annotation_names(t)) : t \in DOMAIN decl}
        \cap FieldNames

\* The arguments a call can read.  Arguments it never reads are fixed: the
\* keyword options of a decoration that stops at line 200, and the arguments
\* of a construction call that does not reach an __init__ that takes any.
OptionsRead(t) ==
    IF AlreadyDecorated(klass, t) THEN {DefaultOptions} ELSE Options

BodiesOver(names, vals) ==
    {[f \in FieldNames |-> IF f \in names THEN g[f] ELSE Unset] :
        g \in [names -> vals]}

BodiesRead(t) ==
    LET init == LookupInit(klass, t) IN
    IF ~is_pytree_dataclass_type(klass, t) \/ init.kind = "object"
    THEN BodiesOver({}, {Unset})
    ELSE IF init.kind = "generated"
    THEN BodiesOver(NameSet(FieldNamesOf(Get(klass[init.owner].fields))),
                    Values \cup {Unset})
    ELSE BodiesOver(UsedNames, Values \cup {Unset, SelfRef})

\* pytree_dataclass(t, **o)
Register(t, o) ==
    /\ t \in Types
    /\ \E r \in {pytree_dataclass(klass, jaxreg, t, o)} :
       /\ klass' = r.klass
       /\ jaxreg' = r.jaxreg
       /\ reglog' = [reglog EXCEPT ![t] =
                        IF r.outcome = "ok" THEN "ok"
                        ELSE IF @ = "ok" THEN "ok" ELSE r.outcome]
       /\ ret' = [NoRet EXCEPT !.op = "pytree_dataclass", !.type = t,
                               !.opts = Some(o), !.outcome = r.outcome]
    /\ UNCHANGED decl

\* t(*args): a construction call
Construct(t, a) ==
    /\ t \in Types
    /\ \E r \in {MetaclassCall(klass, t, a)} :
       ret' = [NoRet EXCEPT !.op = "construct", !.type = t, !.body = Some(a),
                            !.outcome = r.outcome, !.field = r.field,
                            !.inst = r.inst, !.ran = r.ran]
    /\ UNCHANGED <<decl, klass, jaxreg, reglog>>

HoldsInstance == ret.outcome = "ok" /\ ret.inst # None

\* x.tree_flatten_with_keys() on the instance the last call returned
FlattenWithKeys ==
    /\ HoldsInstance
    /\ RootOf(Get(ret.inst).type) = "Struct"
    /\ LET x == Get(ret.inst)
           r == tree_flatten_with_keys(klass, x)
       IN  ret' = [NoRet EXCEPT !.op = "tree_flatten_with_keys", !.type = x.type,
                                !.outcome = r.outcome, !.src = Some(x),
                                !.children = r.children, !.meta = r.meta]
    /\ UNCHANGED <<decl, klass, jaxreg, reglog>>

\* x.tree_flatten() on the instance the last call returned
Flatten ==
    /\ HoldsInstance
    /\ RootOf(Get(ret.inst).type) = "Struct"
    /\ LET x == Get(ret.inst)
           r == tree_flatten(klass, x)
       IN  ret' = [NoRet EXCEPT !.op = "tree_flatten", !.type = x.type,
                                !.outcome = r.outcome, !.src = Some(x),
                                !.children = r.children, !.meta = r.meta]
    /\ UNCHANGED <<decl, klass, jaxreg, reglog>>

\* T.tree_unflatten(metadata, children) on what the last flatten returned
Unflatten ==
    /\ ret.op = "tree_flatten_with_keys"
    /\ ret.outcome = "ok"
    /\ \E r \in {tree_unflatten(ret.type, ret.meta, StripKeys(ret.children))} :
       ret' = [NoRet EXCEPT !.op = "tree_unflatten", !.type = ret.type,
                            !.outcome = r.outcome, !.src = ret.src,
                            !.inst = r.inst, !.ran = r.ran]
    /\ UNCHANGED <<decl, klass, jaxreg, reglog>>

\* The children a caller can hand to tree_unflatten with the metadata of the
\* last flatten: the flattened ones, one fewer, or one more.
ChildrenGiven(cs) ==
    {cs, Append(cs, MaxVal)}
        \cup (IF cs = <<>> THEN {} ELSE {SubSeq(cs, 1, Len(cs) - 1)})

\* after a tree_flatten_with_keys, the children a caller can pass on
ChildrenRead ==
    IF ret.op = "tree_flatten_with_keys"
    THEN ChildrenGiven(StripKeys(ret.children)) ELSE {}

\* T.tree_unflatten(metadata, children) called with children of any length
UnflattenWith(children) ==
    /\ ret.op = "tree_flatten_with_keys"
    /\ ret.outcome = "ok"
    /\ \E r \in {tree_unflatten(ret.type, ret.meta, children)} :
       ret' = [NoRet EXCEPT !.op = "tree_unflatten_with", !.type = ret.type,
                            !.outcome = r.outcome, !.inst = r.inst,
                            !.ran = r.ran]
    /\ UNCHANGED <<decl, klass, jaxreg, reglog>>

\* x.f = v on the instance the last call returned
SetAttr(f, v) ==
    /\ HoldsInstance
    /\ LET x == Get(ret.inst) IN
       ret' = IF IsFrozenFor(klass, x.type, f)
              THEN [NoRet EXCEPT !.op = "setattr", !.type = x.type,
                                 !.outcome = "FrozenInstanceError", !.field = f]
              ELSE [NoRet EXCEPT !.op = "setattr", !.type = x.type,
                                 !.outcome = "ok", !.field = f,
                                 !.inst = Some([x EXCEPT !.attrs = (f :> v) @@ @])]
    /\ UNCHANGED <<decl, klass, jaxreg, reglog>>

Next ==
    \/ \E t \in Types : \E o \in OptionsRead(t) : Register(t, o)
    \/ \E t \in Types : \E a \in BodiesRead(t) : Construct(t, a)
    \/ FlattenWithKeys
    \/ Flatten
    \/ Unflatten
    \/ \E cs \in ChildrenRead : UnflattenWith(cs)
    \/ \E f \in FieldNames, v \in Values : SetAttr(f, v)

Spec == Init /\ [][Next]_vars

(***************************************************************************)
(* Properties.                                                             *)
(***************************************************************************)
\* dataclasses.fields(t), for a class that is a dataclass
Fields(t) == Get(DataclassFields(klass, t))
DeclaredNames(t) == NameSet(FieldNamesOf(Fields(t)))
IsDataclass(t) == DataclassFields(klass, t) # None

ChildNames(fs) ==
    LET IsChild(f) == f.pytree_node IN FieldNamesOf(SelectSeq(fs, IsChild))
StaticNames(fs) == {fs[i].name : i \in {j \in 1..Len(fs) : ~fs[j].pytree_node}}

\* the construction call that just returned went through t's __init__ wrapper
ThroughWrapper ==
    /\ ret.op = "construct"
    /\ ret.type \in UserTypes
    /\ is_pytree_dataclass_type(klass, ret.type)
    /\ LookupInit(klass, ret.type).kind = "replacement"

\* C1 (round-trip law): for a registered type T and an instance x of T that
\* tree_flatten_with_keys can flatten, tree_unflatten applied to T, the
\* returned metadata and the returned children (keys removed, as JAX passes
\* them) returns an instance of T in which every declared field of T, child
\* or static, has the value it has in x, and which has no other attribute.
RoundTripLaw ==
    (ret.op = "tree_unflatten" /\ reglog[ret.type] = "ok") =>
        /\ ret.outcome = "ok"
        /\ Get(ret.inst).type = Get(ret.src).type
        /\ Get(ret.inst).type = ret.type
        /\ DOMAIN Get(ret.inst).attrs = DeclaredNames(ret.type)
        /\ \A f \in DeclaredNames(ret.type) :
              Get(ret.inst).attrs[f] = Get(ret.src).attrs[f]

\* a round trip of an instance with a child field and a static field
RoundTripWitness ==
    /\ ret.op = "tree_unflatten"
    /\ reglog[ret.type] = "ok"
    /\ ret.outcome = "ok"
    /\ ChildNames(Fields(ret.type)) # <<>>
    /\ StaticNames(Fields(ret.type)) # {}

\* the errors of the checks in steps 1 to 5
CheckErrors ==
    {"AlreadyRegisteredError", "UnsafeInitOverwriteError",
     "FieldOrderMismatchError", "RedundantOptionError", "MissingCodecError"}

\* C2 (guard correctness): a construction call on a declared class that has
\* a registered ancestor but is not registered itself (it was never passed to
\* the registrar, or the registrar rejected it at one of its checks) fails
\* with AbstractTypeError, and a construction call on a registered class is
\* not stopped by the guard.
GuardCorrectness ==
    (ret.op = "construct" /\ ret.type \in UserTypes) =>
        /\ (/\ reglog[ret.type] \in CheckErrors \cup {"never"}
            /\ \E u \in UserTypes : u # ret.type /\ IsSubclass(ret.type, u)
                                    /\ reglog[u] = "ok")
              => ret.outcome = "AbstractTypeError"
        /\ reglog[ret.type] = "ok" => ret.outcome # "AbstractTypeError"

\* C3 (no partial registration): a declared class that no registration
\* completed for, and whose latest registration failed at one of the checks
\* of steps 1 to 5, is unusable: a construction call on it fails with
\* AbstractTypeError.
NoPartialRegistration ==
    (ret.op = "construct" /\ ret.type \in UserTypes
        /\ reglog[ret.type] \in CheckErrors)
        => ret.outcome = "AbstractTypeError"

\* C4: a registration of a declared class (one that does not define
\* _MutableInitProxy itself) fails with AlreadyRegisteredError exactly when a
\* registration of that same class completed before.
AlreadyRegisteredExactly ==
    [][\A t \in UserTypes : \A o \in Options :
          (Register(t, o) /\ ~decl[t].proxyattr) =>
              (ret'.outcome = "AlreadyRegisteredError" <=> reglog[t] = "ok")]_vars

\* the initializer class t inherits from its bases
InheritedInit(t) ==
    IF decl[t].base \in Roots THEN ObjectInit ELSE LookupInit(klass, decl[t].base)

\* C5: a registration that asks for a generated initializer, of a class that
\* declares none, without overwrite_parent_init, and that is not stopped as a
\* repeated registration, fails with UnsafeInitOverwriteError exactly when
\* the inherited initializer is neither object's nor one that a registration
\* generated for an ancestor.
UnsafeInitExactly ==
    (/\ ret.op = "pytree_dataclass"
     /\ ret.type \in UserTypes
     /\ ret.outcome # "AlreadyRegisteredError"
     /\ Get(ret.opts).init
     /\ ~decl[ret.type].init
     /\ ~Get(ret.opts).overwrite_parent_init)
        => (ret.outcome = "UnsafeInitOverwriteError"
               <=> InheritedInit(ret.type).kind \notin {"object", "generated"})

ExplicitTrueFieldNames(t) ==
    LET as == SelectSeq(decl[t].annots, IsTrueField)
    IN  [i \in 1..Len(as) |-> as[i].name]

\* t's parent is registered and has fields, and t annotates a new field
\* without listing all of the parent's
AddsFieldWithoutRelisting(t) ==
    /\ decl[t].base \in UserTypes
    /\ reglog[decl[t].base] = "ok"
    /\ ~(DeclaredNames(decl[t].base) \subseteq NameSet(ExplicitTrueFieldNames(t)))
    /\ NameSet(ExplicitTrueFieldNames(t)) \ DeclaredNames(decl[t].base) # {}

\* C6: a registration with has_implicitly_inherited_fields false that gets
\* past the repeated-registration and initializer checks fails with
\* FieldOrderMismatchError exactly when the class's own annotated field names,
\* in declaration order, differ as a list from the field list the dataclass
\* transformation computed; and a subclass of a registered class that adds a
\* field without listing the parent's fields is rejected.
FieldOrderCheck ==
    (/\ ret.op = "pytree_dataclass"
     /\ ret.type \in UserTypes
     /\ ~Get(ret.opts).has_implicitly_inherited_fields)
        => /\ ret.outcome \notin {"AlreadyRegisteredError", "UnsafeInitOverwriteError"}
              => (ret.outcome = "FieldOrderMismatchError"
                     <=> ExplicitTrueFieldNames(ret.type)
                            # FieldNamesOf(Get(klass[ret.type].fields)))
           /\ AddsFieldWithoutRelisting(ret.type) => ret.outcome # "ok"

\* a subclass that adds a field without listing its registered parent's is
\* rejected for its field order
FieldOrderWitness ==
    /\ ret.op = "pytree_dataclass"
    /\ ret.type \in UserTypes
    /\ ret.outcome = "FieldOrderMismatchError"
    /\ AddsFieldWithoutRelisting(ret.type)

\* C7 as stated (proxy isolation): the instance a construction call returns
\* through the __init__ wrapper is frozen, and no field of it holds the proxy,
\* whatever the hand-written initializer does.
ProxyIsolation ==
    (ThroughWrapper /\ ret.outcome = "ok") =>
        /\ \A f \in FieldNames : IsFrozenFor(klass, Get(ret.inst).type, f)
        /\ \A f \in DOMAIN Get(ret.inst).attrs : Get(ret.inst).attrs[f] # SelfRef

\* C7 as amended: the returned instance is of the class that was called, is
\* frozen, and a field of it holds the proxy only if the hand-written
\* initializer assigned `self` to that field.
ProxyIsolationUnlessStored ==
    (ThroughWrapper /\ ret.outcome = "ok") =>
        /\ Get(ret.inst).type = ret.type
        /\ \A f \in FieldNames : IsFrozenFor(klass, Get(ret.inst).type, f)
        /\ \A f \in DOMAIN Get(ret.inst).attrs :
              Get(ret.inst).attrs[f] = SelfRef => Get(ret.body)[f] = SelfRef

\* a wrapped construction whose initializer assigned plain values to two fields
ProxyIsolationWitness ==
    /\ ThroughWrapper
    /\ ret.outcome = "ok"
    /\ Cardinality(DOMAIN Get(ret.inst).attrs) = 2
    /\ \A f \in FieldNames : Get(ret.body)[f] \in Values

\* C8: a construction call through the __init__ wrapper whose hand-written
\* initializer left a declared field of the class unassigned fails with
\* UninitializedFieldError naming such a field, and returns no instance.
UninitializedFieldRaises ==
    (/\ ThroughWrapper
     /\ \E f \in DeclaredNames(ret.type) : Get(ret.body)[f] = Unset)
        => /\ ret.outcome = "UninitializedFieldError"
           /\ ret.field \in DeclaredNames(ret.type)
           /\ Get(ret.body)[ret.field] = Unset
           /\ ret.inst = None

\* C9 (field-order invariant): the metadata that tree_flatten_with_keys
\* returns for an instance of a registered class lists the class's fields
\* that are children, in declared order; the i-th child pair carries the key
\* and the value of the i-th such field; and every declared field is either
\* one of those names or a key of static_fields, never both.
FieldOrderInvariant ==
    (ret.op = "tree_flatten_with_keys" /\ ret.outcome = "ok"
        /\ reglog[ret.type] = "ok") =>
        LET names == ret.meta.child_field_names
            x == Get(ret.src)
        IN  /\ names = ChildNames(Fields(ret.type))
            /\ Len(ret.children) = Len(names)
            /\ \A i \in 1..Len(names) :
                  /\ ret.children[i].value = x.attrs[names[i]]
                  /\ ret.children[i].key = [GetAttrKey |-> names[i]]
            /\ DOMAIN ret.meta.static_fields = StaticNames(Fields(ret.type))
            /\ \A f \in DOMAIN ret.meta.static_fields :
                  ret.meta.static_fields[f] = x.attrs[f]
            /\ NameSet(names) \cap DOMAIN ret.meta.static_fields = {}
            /\ NameSet(names) \cup DOMAIN ret.meta.static_fields
                  = DeclaredNames(ret.type)

\* a flattened instance of a registered class with two children, given
\* different values, and one with a static field
FieldOrderInvariantWitness ==
    /\ ret.op = "tree_flatten_with_keys"
    /\ ret.outcome = "ok"
    /\ reglog[ret.type] = "ok"
    /\ Len(ret.children) = 2
    /\ ret.children[1].value # ret.children[2].value

\* C10: at every moment each class has been registered with JAX as a keyed
\* node class at most once, exactly once if a registration of it completed,
\* and never if it is an init proxy.
KeyedNodeOnce ==
    \A t \in DOMAIN jaxreg :
        /\ jaxreg[t] <= 1
        /\ reglog[t] = "ok" => jaxreg[t] = 1
        /\ IsProxy(t) => jaxreg[t] = 0

\* a registered class with a proxy, after a second registration of the class
\* and one of its proxy were both refused
KeyedNodeOnceWitness ==
    \E t \in UserTypes :
        /\ klass[t].proxy
        /\ reglog[t] = "ok"
        /\ jaxreg[t] = 1
        /\ reglog[ProxyName(t)] = "AlreadyRegisteredError"
        /\ ret.op = "pytree_dataclass"
        /\ ret.type = t
        /\ ret.outcome = "AlreadyRegisteredError"

\* C11: tree_unflatten(T, metadata, children) fails with AssertionError and
\* returns nothing when the number of children differs from the number of
\* names in metadata.child_field_names; otherwise it returns an instance of T
\* that holds the children under those names and the static fields, and on
\* the way no object is created through a class call: no __init__ of T runs,
\* hand-written or wrapped, and no init proxy is made.
UnflattenDirect ==
    [][\A cs \in ChildrenRead :
          UnflattenWith(cs) =>
              IF Len(cs) # Len(ret.meta.child_field_names)
              THEN /\ ret'.outcome = "AssertionError"
                   /\ ret'.inst = None
              ELSE /\ ret'.outcome = "ok"
                   /\ ret'.ran = <<>>
                   /\ Get(ret'.inst).type = ret.type
                   /\ \A i \in 1..Len(cs) :
                         Get(ret'.inst).attrs[ret.meta.child_field_names[i]]
                            = cs[i]
                   /\ \A f \in DOMAIN ret.meta.static_fields :
                         Get(ret'.inst).attrs[f] = ret.meta.static_fields[f]
      ]_vars

\* an instance of a registered class whose hand-written __init__ is wrapped,
\* rebuilt from its two children
UnflattenDirectWitness ==
    /\ ret.op = "tree_unflatten_with"
    /\ ret.outcome = "ok"
    /\ reglog[ret.type] = "ok"
    /\ LookupInit(klass, ret.type).kind = "replacement"
    /\ Cardinality(DOMAIN Get(ret.inst).attrs) = 2

\* the decoration of a declared class that just returned
Registered ==
    /\ ret.op = "pytree_dataclass"
    /\ ret.type \in UserTypes
    /\ ret.outcome = "ok"

\* C12 as stated: after a registration of T returned, T's record holds
\* whether implicit field inheritance was permitted, whether an init proxy
\* was made for T, and the initializer the registration generated, which is
\* None exactly when T declares an initializer of its own.
RegistrationRecord ==
    Registered =>
        LET info == Get(klass[ret.type].info) IN
        /\ info.has_implicitly_inherited_fields
              = Get(ret.opts).has_implicitly_inherited_fields
        /\ info.use_mutable_proxy_in_init = klass[ret.type].proxy
        /\ info.generated_init = None <=> decl[ret.type].init
        /\ info.generated_init # None
              => Get(info.generated_init) = GeneratedInit(ret.type)

\* C12 as amended: the record holds the options has_implicitly_inherited_fields
\* and use_mutable_proxy_in_init as they were passed (an init proxy was made
\* exactly when the latter is true and T declares an initializer of its own),
\* is_init_proxy false, and generated_init: T's generated initializer when
\* init was requested and T declares none, and None otherwise.
RegistrationRecordAsStored ==
    Registered =>
        LET info == Get(klass[ret.type].info)
            o == Get(ret.opts)
        IN  /\ info.has_implicitly_inherited_fields
                  = o.has_implicitly_inherited_fields
            /\ info.use_mutable_proxy_in_init = o.use_mutable_proxy_in_init
            /\ klass[ret.type].proxy
                  = (o.use_mutable_proxy_in_init /\ decl[ret.type].init)
            /\ ~info.is_init_proxy
            /\ info.generated_init =
                  IF o.init /\ ~decl[ret.type].init
                  THEN Some(GeneratedInit(ret.type)) ELSE None
            /\ info.generated_init # None
                  => Get(info.generated_init) = LookupInit(klass, ret.type)

\* a registration that generated an initializer and made no proxy although
\* use_mutable_proxy_in_init was passed as true
RegistrationRecordWitness ==
    /\ Registered
    /\ Get(ret.opts).use_mutable_proxy_in_init
    /\ ~klass[ret.type].proxy
    /\ Get(klass[ret.type].info).generated_init = Some(GeneratedInit(ret.type))

\* C13 as stated: a construction call made directly on an init proxy class
\* is rejected by the guard, and no call hands a proxy instance to its caller.
ProxyOnlyInsideWrapper ==
    /\ (ret.op = "construct" /\ IsProxy(ret.type))
          => ret.outcome = "AbstractTypeError"
    /\ ret.inst # None => ~IsProxy(Get(ret.inst).type)

\* C13 as amended: an init proxy class passes the guard, so a construction
\* call made directly on it runs the original __init__ on one new proxy
\* object and, unless that raises, returns it.  In a construction call on a
\* declared class a proxy object is created only by replacement_init, one
\* for each time it runs, of the proxy class of the class that installed it,
\* and the instance returned is of the class that was called.
ProxyMadeByWrapperOrDirectCall ==
    ret.op = "construct" =>
        /\ IsProxy(ret.type) =>
              /\ ret.outcome # "AbstractTypeError"
              /\ ret.ran = <<[new |-> ret.type, init |-> "custom"]>>
              /\ ret.outcome = "ok" => Get(ret.inst).type = ret.type
        /\ ret.type \in UserTypes =>
              /\ \A i \in 1..Len(ret.ran) :
                    IsProxy(ret.ran[i].new) =>
                        /\ i > 1
                        /\ ret.ran[i - 1].init = "replacement"
                        /\ ret.ran[i].new = ProxyName(
                              LookupInit(klass, ret.ran[i - 1].new).owner)
              /\ \A i \in 1..Len(ret.ran) :
                    ret.ran[i].init = "replacement" =>
                        /\ i < Len(ret.ran)
                        /\ IsProxy(ret.ran[i + 1].new)
              /\ ret.outcome = "ok" => Get(ret.inst).type = ret.type

\* a construction call made directly on A._MutableInitProxy returned a proxy
\* object with an attribute set
DirectProxyCallWitness ==
    /\ ret.op = "construct"
    /\ IsProxy(ret.type)
    /\ ret.outcome = "ok"
    /\ Get(ret.inst).attrs # NoAttrs

\* C14: for an instance x of a registered class, tree_flatten(x) fails
\* exactly when tree_flatten_with_keys(x) does, and otherwise returns the
\* same metadata and, in the same order, the child values of
\* tree_flatten_with_keys(x) without their keys.
FlattenStripsKeys ==
    (ret.op = "tree_flatten" /\ reglog[ret.type] = "ok") =>
        LET keyed == tree_flatten_with_keys(klass, Get(ret.src)) IN
        /\ ret.outcome = keyed.outcome
        /\ ret.meta = keyed.meta
        /\ Len(ret.children) = Len(keyed.children)
        /\ \A i \in 1..Len(keyed.children) :
              ret.children[i] = keyed.children[i].value

\* a flattened instance with two children that hold different values
FlattenStripsKeysWitness ==
    /\ ret.op = "tree_flatten"
    /\ reglog[ret.type] = "ok"
    /\ ret.outcome = "ok"
    /\ Len(ret.children) = 2
    /\ ret.children[1] # ret.children[2]

\* C15: every instance that a construction call returns through the
\* __init__ wrapper has a value for every declared field of its own class,
\* also when the class is a registered subclass that declares no __init__ and
\* was given none, and so inherits the wrapper installed for its parent.
WrapperSetsAllFields ==
    (ThroughWrapper /\ ret.outcome = "ok") =>
        DeclaredNames(Get(ret.inst).type) \subseteq DOMAIN Get(ret.inst).attrs

====
